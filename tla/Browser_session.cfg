SPECIFICATION FairSpec
CONSTANTS
    Tabs = {t1}
    Users = {u1}
    NoUser = NoUser
    Slots = {c1, c2}
    Stamps = {1, 2, 3, 4, 5}
INVARIANTS
    OneRefreshPerTab
PROPERTIES
    CallsSettle
    SignedInPagesSignOut
