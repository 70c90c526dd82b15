CONSTANTS
    Users = {u, v}
    Admins = {v}
    Creators = {u}
    Outsiders = {v}
    Promotable = {v}
    Viewers = {v, None}
    Buckets = {b}
    Titles = {t, edited}
    Edited = edited
    Patches <- MCPatches
    Records = {r}
    None = None
    Keep = Keep
    MaxVersions = 2
    MaxRequests = 2
    Apart = TRUE
SPECIFICATION Spec
INVARIANTS
    TypeOK
    VerifiedVersionWasReviewed
    ApprovalStampMatchesStatus
PROPERTIES
    ShownControlIsNotRefused
    ArchivedOnlyRestored
    FinalIsFrozen
    RefusedPageRefetches
