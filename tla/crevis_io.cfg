SPECIFICATION FairSpec
CONSTANTS
    Outputs = {light, relay}
    Relay = relay
    Modes <- MCModes
    CoilFaults <- MCCoilFaults
    RegisterFaults <- MCRegisterFaults
    MaxLate = 1
INVARIANTS
    TypeOK
    ShadowTruthful
    RelayOffAtEnd
PROPERTIES
    ImplementsOutputs
    ReadbackFollows
    LossShown
