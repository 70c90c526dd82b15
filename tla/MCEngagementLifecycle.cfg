CONSTANTS
    Engagements = {e1, e2}
    Auditors = {a1, a2}
    Areas = {requirements}
SYMMETRY Symmetry
SPECIFICATION Spec
INVARIANTS
    TypeOK
    ClosedIsRevoked
    DraftIsEmpty
    InvitesAwaitAccounts
PROPERTIES
    ClosedIsFinal
    ActiveIsNeverDeleted
    ActivatesByAcceptance
CHECK_DEADLOCK FALSE
