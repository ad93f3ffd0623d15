------------------------------- MODULE Pages -------------------------------
(***************************************************************************)
(* The pages one signed-in user goes through: the users' page, for staff,  *)
(* and the ticket pages (App.jsx).                                         *)
(***************************************************************************)
EXTENDS Screens

CONSTANT MaxChanges

VARIABLES
    route,                                        \* "users" or "tickets"
    own, account, changes, list, form, sending    \* as in UserPage

allVars == <<life, edition, me, page, cache, doing, owed,
             route, own, account, changes, list, form, sending>>

ASSUME ChangesAssumption == MaxChanges \in Nat

Staff == INSTANCE UserPage WITH staffRole <- Role[me]

\* ProtectedRoute's allowedRoles of "users".
MayManageUsers == Role[me] \in {"admin", "manager"}

PagesInit ==
    /\ Init
    /\ route \in {"users", "tickets"}
    /\ IF route = "users" THEN MayManageUsers /\ Staff!Init ELSE Staff!Away

\* Bound: who has left the users' page does not come back to it, so that what
\* is in flight there is of no more interest.
GoToTickets ==
    /\ route = "users"
    /\ route' = "tickets"
    /\ Staff!Leave
    /\ UNCHANGED vars

PagesNext ==
    \/ route = "tickets" /\ Next /\ UNCHANGED <<route, own, account, changes, list, form, sending>>
    \/ route = "users" /\ Staff!Next /\ UNCHANGED <<route, vars>>
    \/ GoToTickets

PagesSpec == PagesInit /\ [][PagesNext]_allVars
=============================================================================
