CONSTANTS
    Engagements = {e1, e2}
    Auditors = {a1, a2}
    Areas = {requirements}
    Requests = {r1}
    None = None
SPECIFICATION Spec
SYMMETRY Symmetry
PROPERTIES
    OneAtATimeIsLifecycle
