CONSTANTS
    Years = {1, 2, 3}
    Runs = {d1, d2, d3, d4}
    Requests = {r1}
    None = None
SPECIFICATION Spec
SYMMETRY Symmetry
PROPERTIES
    ClosedYearIsFrozen
    FinalizedIsNeverDeleted
    LinksAreUndoneNewestFirst
