SPECIFICATION Spec
CONSTANTS
    admin = admin
    manager = manager
    agentA = agentA
    agentB = agentB
    customer = customer
    NoUser = NoUser
    TicketIds = {t1}
    Users = {admin, agentA, customer}
    Requests = {r1, r2}
    Priorities = {low}
    Categories = {general}
    MaxTime = 1
    MaxRejections = 1
    InitAccounts <- MCInitAccounts
    AccountEdits <- AgentMoves
    UpdateBodies <- RaceBodies
    AuditedActions <- DecisiveActions
SYMMETRY SymmetricRequests
INVARIANTS
    MilestonesAreRecorded
    AuditTrailAccounts
PROPERTIES
    HistoryIsKept
    RoleBoundaries
