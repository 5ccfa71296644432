SPECIFICATION FairSpec
CONSTANTS
    Emergency = Emergency
    Bumper = Bumper
    Unknown = Unknown
    Inputs <- MCInputs
    NormallyClosed <- MCNormallyClosed
    Configured <- MCConfigured
    ActiveLow <- MCNormallyClosed
    PowerChecked = TRUE
    TidRange = 2
INVARIANTS
    TypeOK
    LatchedStopHolds
PROPERTIES
    ReleaseIsCurrent
    StopReported
    LossReported
    ReleaseReported
