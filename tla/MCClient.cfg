CONSTANTS
    None = None
    Scenes <- MCScenes
    MaxVersion = 2
SPECIFICATION Spec
CHECK_DEADLOCK FALSE
INVARIANTS
    TypeOK
    OwnWriteIsShown
    EffectOnce
PROPERTIES
    TypedIsKept
    ClosesOntoOwnWrite
    SubmissionEnds
