------------------------------ MODULE MCStaff ------------------------------
(* An instance of user management for TLC. *)
EXTENDS StaffProperties, TLC

CONSTANTS a, m, g

AdminManagerAgent ==
    a :> [role |-> "admin", isActive |-> TRUE] @@ m :> [role |-> "manager", isActive |-> TRUE]

\* One field at a time, and one body that sets both.
Edits ==
    {[role |-> "agent"], [isActive |-> FALSE], [role |-> "admin", isActive |-> TRUE]}

InterchangeableRequests == Permutations(Requests)
=============================================================================
