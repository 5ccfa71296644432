SPECIFICATION FairSpec
CONSTANTS
    Nodes = {left, right}
    Commands <- MCCommands
    CmdVels <- MCCmdVels
    MaxVel = 1
    Geometry = TRUE
    MaxTopic = 2
    MaxCmdVels = 2
    MaxKills = 1
    MaxGates = 2
INVARIANTS
    TypeOK
PROPERTIES
    SilenceStopsOpen
    MixtureEnds
