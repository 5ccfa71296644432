CONSTANTS
    Nodes = {m1}
    Commands = {1}
    MaxDisturbances = 1
    Mishaps = {"power", "bus"}

SPECIFICATION Spec

INVARIANTS
    TypeOK
    OneTransition
    ConfigureShielded
    FirstEnableAtRest

PROPERTIES
    ImplementsCommandPath
