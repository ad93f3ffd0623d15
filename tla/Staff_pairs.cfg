SPECIFICATION Spec
CONSTANTS
    a = a
    m = m
    g = g
    People = {a, m, g}
    InitAccounts <- AdminManagerAgent
    UpdateBodies <- Edits
    NewRoles = {"agent", "manager"}
    Requests = {r1, r2}
SYMMETRY InterchangeableRequests
PROPERTIES
    AdminsAppoint
    ChangesWereAskedFor
    ManagersStayBelow
    AdminsRemain
CHECK_DEADLOCK FALSE
