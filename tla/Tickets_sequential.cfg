SPECIFICATION Spec
CONSTANTS
    admin = admin
    manager = manager
    agentA = agentA
    agentB = agentB
    customer = customer
    NoUser = NoUser
    TicketIds = {t1}
    Users = {admin, agentA, customer}
    Requests = {r1}
    Priorities = {low, high}
    Categories = {general}
    MaxTime = 2
    MaxRejections = 1
    InitAccounts <- MCInitAccounts
    AccountEdits <- NoEdits
    UpdateBodies <- AllBodies
    AuditedActions <- NoActions
INVARIANTS
    ResponseTimesAreTimes
    
PROPERTIES
    OwnerDeletesOnlyUnpicked
    AssigneeDecides
    FirstDatesStand
    DeletedTicketsAreFrozen
    ImplementsLifecycle
