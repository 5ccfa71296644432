CONSTANTS
    Nodes = {m1}
    Commands = {}
    MaxDisturbances = 1
    Mishaps = {"estop", "fault", "power"}

SPECIFICATION RecoverySpec

PROPERTIES
    RecoversUnlessHalved
    ReinitQuiesces
    TransitionEnds
