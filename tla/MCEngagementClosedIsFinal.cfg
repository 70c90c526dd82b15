CONSTANTS
    Engagements = {e1}
    Auditors = {a1}
    Areas = {requirements}
    Requests = {r1, r2}
    None = None
SPECIFICATION Spec
PROPERTIES
    ClosedIsFinal
