SPECIFICATION FairSpec
CHECK_DEADLOCK FALSE
CONSTANTS
    Timeout = 2
    Conditions <- MCConditions
    Answer <- MCAnswer
    Frame <- MCFrame
    MaxQueued = 2
    MaxEvents = 2
INVARIANTS
    TypeOK
    CallbackHasOwner
    PresenceIsCurrent
PROPERTIES
    OneFrameEnds
    PictureConverges
