------------------------------ MODULE UserPage ------------------------------
(***************************************************************************)
(* UserListPage.jsx with its three modals, as an administrator or manager  *)
(* goes through it, for one account of the list.                           *)
(*                                                                         *)
(* The list is a query that is fetched again every 30 seconds.  A modal is *)
(* filled once, from the copy the list showed when it was opened, and an   *)
(* edit sends the whole form.  Meanwhile others change the account.  The   *)
(* server is one step per request, with the checks of Staff.               *)
(*                                                                         *)
(* Left out: search, filters and pages of the list; names, departments,    *)
(* phones; e-mail and password, which updateUserSchema strips.             *)
(***************************************************************************)
EXTENDS Integers, FiniteSets

CONSTANT MaxChanges    \* bound: changes of the account

VARIABLES
    staffRole,    \* the user's role, as the browser keeps it
    own,          \* whether the account is the user's own
    account,      \* the server: the account, if there is one
    changes,      \* how often it has changed
    list,         \* the query of the list: what it shows, the fetch under way
    form,         \* the modal that is open and the copy it was filled from
    sending       \* the mutation in flight

NoAccount == [role |-> "none", isActive |-> FALSE]

Rules == INSTANCE Staff WITH
    People <- {"account", "another"}, InitAccounts <- [p \in {} |-> NoAccount], UpdateBodies <- {},
    NewRoles <- {}, Requests <- {}, accounts <- [p \in {} |-> NoAccount], req <- <<>>, overlapped <- {}

Roles == Rules!Roles
Below == Rules!Below

-----------------------------------------------------------------------------
(* What the server answers.                                                *)

Exists == account # NoAccount

\* The role authenticate loads.
MyRole == IF own THEN account.role ELSE staffRole

Admitted == (own => account.isActive) /\ Rules!MayManage(MyRole)

\* getAllUsers: managers see agents and customers.
Listed == Exists /\ (MyRole = "manager" => account.role \in Below)

Answer ==
    [shows   |-> IF ~Admitted THEN "error" ELSE IF Listed THEN "account" ELSE "empty",
     account |-> IF Admitted /\ Listed THEN account ELSE NoAccount,
     edition |-> changes]

Me == IF own THEN "account" ELSE "another"

Allowed(op, body) ==
    /\ Admitted
    /\ \/ op = "create" /\ ~Exists /\ Rules!MayCreate(MyRole, body.role)
       \/ op = "update" /\ Exists /\ Rules!MayUpdate(MyRole, account, body)
       \/ op = "delete" /\ Exists /\ Rules!MayDelete(MyRole, Me, "account", account)

Result(op, body) ==
    IF op = "create" THEN [role |-> body.role, isActive |-> TRUE]
    ELSE Rules!Written(account, Rules!Modified(account, body))

-----------------------------------------------------------------------------
(* What the page offers.                                                   *)

CanCreateUser == staffRole \in {"admin", "manager"}
CanEditUser(a) == staffRole = "admin" \/ (staffRole = "manager" /\ a.role \in Below)
CanDeleteUser(a) == staffRole = "admin" \/ (staffRole = "manager" /\ a.role \in Below)

Offers ==
    (IF CanCreateUser THEN {"create"} ELSE {})
        \cup (IF list.shows = "account" /\ CanEditUser(list.account) THEN {"update"} ELSE {})
        \cup (IF list.shows = "account" /\ CanDeleteUser(list.account) THEN {"delete"} ELSE {})

\* The options of the select "Role".
RoleOptions == IF staffRole = "admin" THEN Roles ELSE Below

\* Mutant: the box "Active User" is not filled from the account.
FilledInPart(a) == [a EXCEPT !.isActive = FALSE]

\* The effect of EditUserModal that fills its form.
Filled(a) == a

Bodies(op) ==
    CASE op = "create" -> [role : RoleOptions]
      [] op = "update" -> [role : RoleOptions, isActive : BOOLEAN]
      [] op = "delete" -> {[isActive |-> FALSE]}

\* What the user has chosen, and not only left as the form was filled.
Touched(op, body) ==
    IF op = "update" THEN {f \in DOMAIN body : body[f] # Filled(form.account)[f]} ELSE DOMAIN body

-----------------------------------------------------------------------------
(* The query of the list.                                                  *)

NoCall == [phase |-> "none"]
Fetch == [phase |-> "sent"]

\* Mounting, refetchInterval.
Poll ==
    /\ list.call = NoCall
    /\ list' = [list EXCEPT !.call = Fetch]
    /\ UNCHANGED <<own, account, changes, form, sending>>

ServeList ==
    /\ list.call = Fetch
    /\ list' = [list EXCEPT !.call = [phase |-> "answered", data |-> Answer]]
    /\ UNCHANGED <<own, account, changes, form, sending>>

ListAnswered ==
    LET data == list.call.data IN
    /\ list.call.phase = "answered"
    /\ list' = [shows |-> data.shows, account |-> data.account, edition |-> data.edition,
                call |-> NoCall]
    /\ UNCHANGED <<own, account, changes, form, sending>>

-----------------------------------------------------------------------------
(* The modals and their mutations.                                         *)

Closed == [kind |-> "none"]
Idle == [phase |-> "idle"]

OpenModal(op) ==
    /\ form = Closed /\ op \in Offers
    /\ form' = [kind |-> op, account |-> list.account, edition |-> list.edition]
    /\ UNCHANGED <<own, account, changes, list, sending>>

CloseModal ==
    /\ form # Closed
    /\ form' = Closed
    /\ UNCHANGED <<own, account, changes, list, sending>>

\* Bound: one mutation in flight.
Submit ==
    /\ form # Closed /\ sending = Idle
    /\ \E body \in Bodies(form.kind) :
          sending' = [phase |-> "sent", op |-> form.kind, body |-> body,
                      touched |-> Touched(form.kind, body), edition |-> form.edition]
    /\ UNCHANGED <<own, account, changes, list, form>>

Serve ==
    /\ sending.phase = "sent" /\ changes < MaxChanges
    /\ IF Allowed(sending.op, sending.body)
       THEN /\ account' = Result(sending.op, sending.body)
            /\ changes' = changes + 1
            /\ sending' = [phase |-> "ok", op |-> sending.op]
       ELSE /\ sending' = [phase |-> "refused"]
            /\ UNCHANGED <<account, changes>>
    /\ UNCHANGED <<own, list, form>>

\* onSuccess: the list is fetched anew, and a modal of the mutation's kind is
\* closed, even one that was opened since.
MutationSucceeds ==
    /\ sending.phase = "ok"
    /\ sending' = Idle
    /\ form' = IF form.kind = sending.op THEN Closed ELSE form
    /\ list' = [list EXCEPT !.call = Fetch]
    /\ UNCHANGED <<own, account, changes>>

\* onError, also where the answer is lost.
MutationFails ==
    /\ sending # Idle
    /\ sending' = Idle
    /\ UNCHANGED <<own, account, changes, list, form>>

\* Another member of staff creates or changes the account.
Elsewhere ==
    /\ changes < MaxChanges
    /\ account' \in Rules!Accounts \ {account}
    /\ changes' = changes + 1
    /\ UNCHANGED <<own, list, form, sending>>

-----------------------------------------------------------------------------

Nowhere == [shows |-> "nothing", account |-> NoAccount, edition |-> 0, call |-> NoCall]

\* The page is not open.
Away ==
    /\ own = FALSE /\ account = NoAccount /\ changes = 0
    /\ list = Nowhere /\ form = Closed /\ sending = Idle

\* The user goes elsewhere, and nothing of it is kept.
Leave ==
    /\ own' = FALSE /\ account' = NoAccount /\ changes' = 0
    /\ list' = Nowhere /\ form' = Closed /\ sending' = Idle

Init ==
    /\ own \in BOOLEAN /\ changes = 0
    /\ IF own THEN account = [role |-> staffRole, isActive |-> TRUE]
              ELSE account \in Rules!Accounts \cup {NoAccount}
    /\ list = Nowhere /\ form = Closed /\ sending = Idle

Next ==
    \/ Poll \/ ServeList \/ ListAnswered
    \/ \E op \in {"create", "update", "delete"} : OpenModal(op)
    \/ CloseModal \/ Submit
    \/ Serve \/ MutationSucceeds \/ MutationFails
    \/ Elsewhere
=============================================================================
