CONSTANTS
    Nodes = {m1}
    Commands = {1}
    MaxDisturbances = 1
    Mishaps = {"bus"}

SPECIFICATION Spec

INVARIANTS
    ShutGateHoldsZero
