SPECIFICATION FairSpec
CONSTANTS
    admin = admin
    manager = manager
    agentA = agentA
    agentB = agentB
    customer = customer
    NoUser = NoUser
    TicketIds = {t1}
    Users = {admin, customer}
    Requests = {r1, r2}
    Priorities = {low}
    Categories = {general}
    MaxTime = 1
    MaxRejections = 1
    InitAccounts <- MCInitAccounts
    AccountEdits <- NoEdits
    UpdateBodies <- ResolveBody
    AuditedActions <- NoActions
PROPERTIES
    DeletedTicketsSettle
