------------------------------ MODULE MCTickets ------------------------------
(* Instances of the ticket component for TLC.  One ticket is enough: no     *)
(* handler and no property relates two tickets.                            *)
EXTENDS Reports, TLC

CONSTANTS admin, manager, agentA, agentB, customer

Account(role, isActive) == [role |-> role, isActive |-> isActive]

MCInitAccounts ==
    [u \in Users |->
        Account(CASE u = admin   -> "admin"
                  [] u = manager -> "manager"
                  [] u \in {agentA, agentB} -> "agent"
                  [] OTHER       -> "customer", TRUE)]

NoEdits == {}

\* The agent becomes a customer, once and for all.
AgentMoves == {agentA} \X {Account("customer", TRUE)}

SetStatus(s) == [status |-> s]
SetAssignee(u) == [assignedTo |-> u]

\* Every single-field body, one with two fields, and one that has none of the
\* fields kept here.
AllBodies ==
    {NoBody}
        \cup {SetStatus(s) : s \in Statuses}
        \cup {SetAssignee(u) : u \in {customer, NoUser}}
        \cup {[priority |-> p] : p \in Priorities}
        \cup {[category |-> c] : c \in Categories}
        \cup {[status |-> "closed", assignedTo |-> agentA]}

\* The bodies that meet in a race: finishing, and giving to the agent.
RaceBodies == {SetStatus("resolved"), SetAssignee(agentA)}
ResolveBody == {SetStatus("resolved")}

\* A ticket given to a customer.
ToACustomer == {SetAssignee(customer)}

\* The actions that show how a ticket came by its state.
DecisiveActions == {"accepted", "status_changed", "deleted"}
NoActions == {}

SymmetricRequests == Permutations(Requests)
=============================================================================
