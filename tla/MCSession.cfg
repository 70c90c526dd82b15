CONSTANTS
    t1 = t1
    t2 = t2
    anil = anil
    bina = bina
    None = None
    Tabs <- MCTabs
    Users <- MCUsers
    Leavers <- MCLeavers
    Worked <- MCWorked
    RefreshLimit = 1
    MaxCalls = 2
SPECIFICATION Spec
INVARIANTS
    TypeOK
    ProfileIsOfTokens
    CacheIsOfSession
    SpinnerIsAwaited
PROPERTIES
    ExpiryEndsNoSession
    CallEnds
