SPECIFICATION Spec
CONSTANTS
    Tabs = {t1}
    Users = {u1, u2}
    NoUser = NoUser
    Slots = {c1, c2}
    Stamps = {1, 2, 3, 4, 5}
INVARIANTS
    CredentialsAreTheUsers
