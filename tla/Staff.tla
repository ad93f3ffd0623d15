------------------------------- MODULE Staff -------------------------------
(***************************************************************************)
(* User management: user.routes.js, user.controller.js, user.service.js    *)
(* and the role and isActive fields of user.model.js.                      *)
(*                                                                         *)
(* As in Tickets a request is a sequence of steps, with other requests in  *)
(* between:                                                                *)
(*                                                                         *)
(*   authenticate, requireRole -> findById (or findOne) and the checks     *)
(*                             -> the database applies save() or create()  *)
(*                                                                         *)
(* Left out: names, departments, phones and passwords; the welcome e-mail, *)
(* whose failure changes nothing; the events emitted afterwards; lists and *)
(* statistics, which change nothing.                                       *)
(***************************************************************************)
EXTENDS Integers, FiniteSets

CONSTANTS
    People,         \* the e-mail addresses accounts may have
    InitAccounts,   \* the accounts at the start: a function on some of People
    UpdateBodies,   \* the bodies of PUT /users/:id in use
    NewRoles,       \* the roles POST /users asks for
    Requests        \* slots for the requests in flight at one time

Roles == {"admin", "manager", "agent", "customer"}
Accounts == [role : Roles, isActive : BOOLEAN]

\* What updateUserSchema lets through of the two fields.
IsUpdateBody(b) ==
    /\ DOMAIN b \subseteq {"role", "isActive"}
    /\ "role" \in DOMAIN b => b.role \in Roles
    /\ "isActive" \in DOMAIN b => b.isActive \in BOOLEAN

ASSUME AccountsAssumption ==
    DOMAIN InitAccounts \subseteq People
        /\ \A p \in DOMAIN InitAccounts : InitAccounts[p] \in Accounts
ASSUME BodiesAssumption == \A b \in UpdateBodies : IsUpdateBody(b)
ASSUME NewRolesAssumption == NewRoles \subseteq Roles

VARIABLES
    accounts,     \* the users collection: a function on the addresses in use
    req,          \* what each request in flight is doing
    overlapped    \* history: requests that were not alone all the time

vars == <<accounts, req, overlapped>>

Registered == DOMAIN accounts

-----------------------------------------------------------------------------
(* Who may do what.                                                        *)

MayManage(role) == role \in {"admin", "manager"}       \* requireRole

Below == {"agent", "customer"}

\* Mutant: what a manager may ask for is not looked at.
MayUpdateWhom(role, target, body) == role = "manager" => target.role \in Below

\* Mutant: whose account it is is not looked at.
MayUpdateWhat(role, target, body) ==
    role = "manager" /\ "role" \in DOMAIN body => body.role \in Below

\* The hierarchy of updateUser: "role" is the actor's, "target" a copy.
MayUpdate(role, target, body) ==
    role = "manager" =>
        /\ target.role \in Below
        /\ "role" \in DOMAIN body => body.role \in Below

\* Mutant: an administrator may delete the account in use.
MayDeleteAnyone(role, actor, p, target) == role = "manager" => target.role \in Below

\* The checks of deleteUser.
MayDelete(role, actor, p, target) ==
    /\ p # actor
    /\ role = "manager" => target.role \in Below

MayCreate(role, new) == role = "manager" => new \in Below

\* Mutant: save() sends the document.
WholeDocument(copy, body) ==
    [f \in {"role", "isActive"} |-> IF f \in DOMAIN body THEN body[f] ELSE copy[f]]

\* The paths save() sends: those of the body that differ from the copy.
Modified(copy, body) == [f \in {g \in DOMAIN body : body[g] # copy[g]} |-> body[f]]

\* updateOne({_id}, {$set: set})
Written(stored, set) ==
    [role     |-> IF "role" \in DOMAIN set THEN set.role ELSE stored.role,
     isActive |-> IF "isActive" \in DOMAIN set THEN set.isActive ELSE stored.isActive]

-----------------------------------------------------------------------------
(* Requests.  "actor" and "role" are what authenticate has put in req.user.*)

Idle == [phase |-> "idle"]

Busy == {r \in Requests : req[r] # Idle}

Become(r, q) ==
    /\ req' = [req EXCEPT ![r] = q]
    /\ overlapped' = IF q = Idle THEN overlapped \ {r} ELSE overlapped

\* A request comes in; those in flight are no longer alone.
Arrives(r, q) ==
    /\ req[r] = Idle
    /\ req' = [req EXCEPT ![r] = q]
    /\ overlapped' = IF Busy = {} THEN overlapped ELSE overlapped \cup Busy \cup {r}
    /\ UNCHANGED accounts

\* authenticate and requireRole pass.
Admitted(actor) == accounts[actor].isActive /\ MayManage(accounts[actor].role)

Received(op, actor, p, body) ==
    [phase |-> "received", op |-> op, actor |-> actor, role |-> accounts[actor].role,
     target |-> p, body |-> body]

ReceiveUpdate(r) ==
    \E actor \in Registered, p \in Registered, body \in UpdateBodies :
        Admitted(actor) /\ Arrives(r, Received("update", actor, p, body))

ReceiveDelete(r) ==
    \E actor \in Registered, p \in Registered :
        Admitted(actor) /\ Arrives(r, Received("delete", actor, p, [isActive |-> FALSE]))

\* createUserSchema: the body names a role, and may say that the account is
\* not active.
ReceiveCreate(r) ==
    \E actor \in Registered, p \in People, role \in NewRoles, isActive \in BOOLEAN :
        /\ Admitted(actor)
        /\ Arrives(r, Received("create", actor, p, [role |-> role, isActive |-> isActive]))

Refuse(r) == Become(r, Idle)

Saving(q, set) ==
    [phase |-> "save", op |-> q.op, actor |-> q.actor, role |-> q.role,
     target |-> q.target, body |-> q.body, set |-> set]

UpdateUser(r) ==
    LET q == req[r]
        copy == accounts[q.target]
    IN
    /\ q.phase = "received" /\ q.op = "update"
    /\ IF MayUpdate(q.role, copy, q.body)
       THEN Become(r, Saving(q, Modified(copy, q.body)))
       ELSE Refuse(r)
    /\ UNCHANGED accounts

DeleteUser(r) ==
    LET q == req[r]
        copy == accounts[q.target]
    IN
    /\ q.phase = "received" /\ q.op = "delete"
    /\ IF MayDelete(q.role, q.actor, q.target, copy)
       THEN Become(r, Saving(q, Modified(copy, q.body)))
       ELSE Refuse(r)
    /\ UNCHANGED accounts

\* The hierarchy, then findOne({email}).
CreateUser(r) ==
    LET q == req[r] IN
    /\ q.phase = "received" /\ q.op = "create"
    /\ IF MayCreate(q.role, q.body.role) /\ q.target \notin Registered
       THEN Become(r, Saving(q, q.body))
       ELSE Refuse(r)
    /\ UNCHANGED accounts

SaveUser(r) ==
    LET q == req[r] IN
    /\ q.phase = "save" /\ q.op \in {"update", "delete"}
    /\ accounts' = [accounts EXCEPT ![q.target] = Written(@, q.set)]
    /\ Become(r, Idle)

Inserted(p, account) ==
    [x \in Registered \cup {p} |-> IF x = p THEN account ELSE accounts[x]]

\* The unique index on email lets the first of two insertions through.
Inserts(p) == p \notin Registered

InsertUser(r) ==
    LET q == req[r] IN
    /\ q.phase = "save" /\ q.op = "create"
    /\ accounts' = IF Inserts(q.target) THEN Inserted(q.target, q.set) ELSE accounts
    /\ Become(r, Idle)

\* A database call is refused: errorHandler answers.
RequestFails(r) ==
    /\ req[r] # Idle
    /\ Become(r, Idle)
    /\ UNCHANGED accounts

-----------------------------------------------------------------------------

Init ==
    /\ accounts = InitAccounts
    /\ req = [r \in Requests |-> Idle]
    /\ overlapped = {}

Next ==
    \E r \in Requests :
        \/ ReceiveUpdate(r) \/ ReceiveDelete(r) \/ ReceiveCreate(r)
        \/ UpdateUser(r) \/ DeleteUser(r) \/ CreateUser(r)
        \/ SaveUser(r) \/ InsertUser(r) \/ RequestFails(r)

Spec == Init /\ [][Next]_vars

=============================================================================
