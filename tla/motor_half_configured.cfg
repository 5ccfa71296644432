CONSTANTS
    Nodes = {m1}
    Commands = {}
    MaxDisturbances = 1
    Mishaps = {"power"}

SPECIFICATION RecoverySpec

PROPERTIES
    Recovers
