SPECIFICATION Spec
CONSTANTS
    admin = admin
    manager = manager
    agentA = agentA
    agentB = agentB
    customer = customer
    NoUser = NoUser
    TicketIds = {t1}
    Users = {admin, agentA, customer}
    Requests = {r1}
    Priorities = {low}
    Categories = {general}
    MaxTime = 1
    MaxRejections = 1
    InitAccounts <- MCInitAccounts
    AccountEdits <- NoEdits
    UpdateBodies <- ToACustomer
    AuditedActions <- NoActions
PROPERTY
    AgentsDecide
