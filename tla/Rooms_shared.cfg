SPECIFICATION Spec
CONSTANTS
    a = a
    c = c
    g = g
    Users = {a, g, c}
    NoUser = NoUser
    Role <- AdminAgentCustomer
    Sockets = {s1, s2}
    MaxConn = 1
    CommentIds = {k1}
    Requests = {r1, r2}
SYMMETRY InterchangeableSocketsAndRequests
INVARIANTS PresenceIsTrue LastWordIsTrue
PROPERTY DeletedCommentsStayDeleted
