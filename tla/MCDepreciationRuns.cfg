CONSTANTS
    Years = {1, 2}
    Runs = {d1, d2, d3}
    Requests = {r1, r2}
    None = None
SPECIFICATION Spec
SYMMETRY Symmetry
INVARIANTS
    TypeOK
    OneFinalizedPerYear
PROPERTIES
    ExecutionSparesFinalized
