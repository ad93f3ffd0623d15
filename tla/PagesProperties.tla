-------------------------- MODULE PagesProperties --------------------------
(***************************************************************************)
(* What the pages promise their user.                                      *)
(***************************************************************************)
EXTENDS Pages

\* What the forms offer and the schemas never take.
UnfitChoice(op, arg) ==
    \/ page.at = "ticket" /\ op = "assign" /\ arg = NoUser
    \/ page.at = "ticket" /\ op = "reject" /\ arg = "short"
    \/ op = "reject" /\ arg = "long"

TicketOffersAreAllowed ==
    ShowsTicket /\ Shown.edition = edition =>
        \A op \in Offers :
            /\ Allowed(op) \/ (Role[me] = "customer" /\ op = "update")
            /\ \A arg \in Arguments(op) : ValidArgument(op, arg) \/ UnfitChoice(op, arg)

UserOffersAreAllowed ==
    list.shows = "account" /\ list.edition = changes =>
        \A op \in Staff!Offers \ {"create"} : \A body \in Staff!Bodies(op) :
            Staff!Allowed(op, body) \/ (own /\ op = "delete")

\* What a page offers, the server allows: wherever the copy shown is the last
\* edition of the ticket, or of the account, every button stands for a request
\* that passes the checks of the handler, for every role and every state a
\* ticket or an account can be in; and so does every choice of a status, of an
\* agent, of a reason, and of the role and activity of an account.  The code
\* has five exceptions, all of them refused by the server:
\*   - the customer's "Update Ticket", whose modal sends a status;
\*   - "Unassigned" in AssignTicketModal, on the page of a ticket;
\*   - a reason of less than 10 characters in RejectTicketModal, which only
\*     wants it not blank, on the same page;
\*   - a reason of more than 500 characters, on both pages;
\*   - an administrator's "Delete" of the account in use.
\* Code: the conditions of the pages and the controls of their forms against
\* role.middleware.js, ticket.validation.js, and the checks of
\* ticket.service.js and user.service.js.
OffersAreAllowed == TicketOffersAreAllowed /\ UserOffersAreAllowed

\* A user who stays on a page sees there what they wrote: once the write is
\* confirmed and no fetch is under way, the page does not show an earlier
\* edition, also where a fetch that was under way had been served before.
\* Code: the onSuccess of the mutations and the keys they invalidate.
OwnWritesAreShown ==
    page.at \in Keys /\ Shown.call = NoCall /\ Shown.shows # "error" => Shown.edition >= owed

\* An edit of an account changes what the user chose to change, and nothing
\* else, unless somebody changed the account after the copy the form was filled
\* from: only then does the form, which is sent whole, undo the role or the
\* deactivation it does not know of.
\* Code: EditUserModal.jsx, the list it is opened from, and updateUser.
FormsKeepWhatTheyShow ==
    [][sending.phase = "sent" /\ sending'.phase = "ok" /\ sending.op = "update" /\ sending.edition = changes =>
          \A f \in {"role", "isActive"} \ sending.touched : account'[f] = account[f]]_allVars

\* Whatever the user asks for and whoever else is at work, the ticket goes
\* through its life cycle: a request that passes the checks of the handlers and
\* the schema of its body is one of the operations of TicketLifecycle, and any
\* other leaves the ticket as it is.
\* Code: the checks of ticket.service.js and assignTicketSchema.
TicketGoesThroughItsLife == Life!Spec
=============================================================================
