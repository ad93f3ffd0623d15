------------------------------ MODULE Reports ------------------------------
(***************************************************************************)
(* The figures the client shows about the tickets, and the three queries   *)
(* they come from: GET /tickets/stats on the dashboards, GET               *)
(* /monitoring/stats on the overview, and GET /monitoring/agent-performance*)
(* on the manager's dashboard and the monitoring page, which has one row   *)
(* for each account tickets are assigned to.                               *)
(*                                                                         *)
(* All of them read one state here.  The statistics are of all time, the   *)
(* report is of the tickets created in the last 7, 30 or 90 days.  Dates   *)
(* of creation are not kept: a period P is any set of tickets, those that  *)
(* were created within it, and of a resolution time only the tickets it is *)
(* the average of are known.                                               *)
(* Left out: the priorities, what happened today, and the ticket volume of *)
(* a week.                                                                 *)
(***************************************************************************)
EXTENDS TicketProperties, FiniteSets, Functions

Kept == {t \in Stored : ~tickets[t].isDeleted}

Count(T, S) == Cardinality({t \in T : tickets[t].status \in S})

\* $avg is null for no value at all: the set is empty.
Total(T, from, to) == SumFunction([t \in T |-> tickets[t][to] - tickets[t][from]])

Average(T, from, to) == IF T = {} THEN {} ELSE {Total(T, from, to) \div Cardinality(T)}

-----------------------------------------------------------------------------
(* The report on the agents, of the period P.                              *)

\* $match, and $group by the assignee.
Reported(u, P) == {t \in Kept \cap P : tickets[t].assignedTo = u}

Answered(u, P) == {t \in Reported(u, P) : tickets[t].acceptedAt # Never /\ tickets[t].assignedAt # Never}

Finished(u, P) ==
    {t \in Reported(u, P) : tickets[t].status \in {"resolved", "closed"} /\ tickets[t].resolvedAt # Never}

\* A row of the report.
AgentRow(u, P) ==
    [totalAssigned |-> Cardinality(Reported(u, P)),
     resolved      |-> Count(Reported(u, P), {"resolved", "closed"}),
     inProgress    |-> Count(Reported(u, P), {"in_progress"}),
     open          |-> Count(Reported(u, P), {"open"}),
     rejected      |-> Cardinality({t \in Reported(u, P) : tickets[t].acceptanceStatus = "rejected"}),
     resolution    |-> Finished(u, P),
     response      |-> Average(Answered(u, P), "assignedAt", "acceptedAt")]

Agents(P) == {u \in Users : Reported(u, P) # {}}

\* The team's strip above the rows.
Summary(P) ==
    [totalAssigned   |-> SumFunction([u \in Agents(P) |-> AgentRow(u, P).totalAssigned]),
     totalResolved   |-> SumFunction([u \in Agents(P) |-> AgentRow(u, P).resolved]),
     totalInProgress |-> SumFunction([u \in Agents(P) |-> AgentRow(u, P).inProgress]),
     totalOpen       |-> SumFunction([u \in Agents(P) |-> AgentRow(u, P).open])]

-----------------------------------------------------------------------------
(* The statistics, and what each page shows of them.                       *)

\* Mutant: a customer's statistics count the deleted tickets.
CountsTheDeleted(u) ==
    CASE accounts[u].role = "customer" -> {t \in Stored : tickets[t].createdBy = u}
      [] accounts[u].role = "agent"    -> {t \in Stored : tickets[t].assignedTo = u}
      [] OTHER                         -> Stored

\* $match of getTicketStats.
Own(u) ==
    CASE accounts[u].role = "customer" -> {t \in Kept : tickets[t].createdBy = u}
      [] accounts[u].role = "agent"    -> {t \in Kept : tickets[t].assignedTo = u}
      [] OTHER                         -> Kept

TicketStats(u) ==
    [total      |-> Cardinality(Own(u)),
     open       |-> Count(Own(u), {"open"}),
     inProgress |-> Count(Own(u), {"in_progress"}),
     resolved   |-> Count(Own(u), {"resolved"}),
     closed     |-> Count(Own(u), {"closed"}),
     resolution |-> {t \in Own(u) : tickets[t].resolvedAt # Never}]

CustomerDashboard(stats) ==
    [total |-> stats.total, open |-> stats.open, inProgress |-> stats.inProgress, resolved |-> stats.resolved]

AgentDashboard(stats) ==
    [assigned |-> stats.total, inProgress |-> stats.inProgress, resolved |-> stats.resolved]

\* "Unassigned" counts open tickets, in a list that find has filtered.
ManagerDashboard(stats, team) ==
    [total |-> stats.total, open |-> stats.open, inProgress |-> stats.inProgress, resolved |-> stats.resolved,
     unassigned |-> Count({t \in Kept : tickets[t].assignedTo = NoUser}, {"open"}),
     team |-> team]

AdminDashboard(stats) ==
    [total |-> stats.total, open |-> stats.open, resolved |-> stats.resolved]

\* GET /monitoring/stats, the part about tickets.
Overview == [total |-> Cardinality(Kept), open |-> Count(Kept, {"open"})]

-----------------------------------------------------------------------------

\* The response times of the report are times: the average of an agent none of
\* whose tickets waits to be accepted is not negative, however often a ticket was
\* rejected, given to another or handed on before.  For a ticket that waits again
\* after it was accepted the date of the former acceptance stands beside that of
\* the new assignment, and the difference is negative.
\* Code: assignTicket, acceptTicket and rejectTicket against avgResponseHours.
ResponseTimesAreTimes ==
    \A P \in SUBSET Stored : \A u \in Agents(P) :
        (\A t \in Answered(u, P) : tickets[t].acceptanceStatus = "accepted")
            => \A hours \in AgentRow(u, P).response : hours >= 0

\* What an agent reads on the dashboard is what the manager reads of the agent and
\* what is older than the report, but that the report counts closed tickets as
\* resolved.
AgentFiguresAgree(u, P) ==
    LET stats == TicketStats(u)
        shown == AgentDashboard(stats)
        row   == AgentRow(u, P)
        older == Own(u) \ P
    IN
    /\ shown.assigned = row.totalAssigned + Cardinality(older)
    /\ shown.inProgress = row.inProgress + Count(older, {"in_progress"})
    /\ shown.resolved + stats.closed = row.resolved + Count(older, {"resolved", "closed"})
    /\ row.resolution \subseteq stats.resolution

\* The manager's dashboard adds up: what is open is what nobody has, what the team
\* has of the period, and what it has of before.
ManagerFiguresAgree(u, P) ==
    LET shown == ManagerDashboard(TicketStats(u), Summary(P))
        older == {t \in Kept \ P : tickets[t].assignedTo # NoUser}
    IN
    /\ shown.open = shown.unassigned + shown.team.totalOpen + Count(older, {"open"})
    /\ shown.team.totalAssigned + Cardinality(older) <= shown.total
    /\ shown.team.totalInProgress + Count(older, {"in_progress"}) <= shown.inProgress

AdminFiguresAgree(stats) ==
    LET shown == AdminDashboard(stats) IN shown.total = Overview.total /\ shown.open = Overview.open

CustomerFiguresAgree(stats) ==
    LET shown == CustomerDashboard(stats) IN
    /\ shown.total <= Overview.total
    /\ shown.open + shown.inProgress + shown.resolved + stats.closed = shown.total

\* Figures of the same tickets agree, whichever page and query they come from and
\* whatever was deleted, reopened, handed on or taken away: the report differs from
\* the statistics by the tickets older than its period, and by nothing else; and
\* no customer has tickets the staff does not see.  The statistics of managers are
\* those of administrators.
\* Code: getTicketStats, the monitoring routes, and the dashboards.
FiguresAgree ==
    \A u \in Users, P \in SUBSET Stored :
        CASE accounts[u].role = "agent"    -> AgentFiguresAgree(u, P)
          [] accounts[u].role = "manager"  -> ManagerFiguresAgree(u, P)
          [] accounts[u].role = "admin"    -> AdminFiguresAgree(TicketStats(u)) /\ ManagerFiguresAgree(u, P)
          [] accounts[u].role = "customer" -> CustomerFiguresAgree(TicketStats(u))
=============================================================================
