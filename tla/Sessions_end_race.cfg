SPECIFICATION WatchedSpec
CONSTANTS
    Passwords = {p1, p2}
    FirstPassword = p1
    RefreshTokens = {t1, t2}
    ResetTokens = {k1}
    NoToken = NoToken
    Requests = {r1, r2}
    MaxAttempts = 2
    LockDuration = 1
    ResetDuration = 1
    MaxTime = 2
SYMMETRY SymmetricTokens
INVARIANT
    EndedSessionsStayEnded
