CONSTANTS
    Nodes = {m1, m2}
    Commands = {}
    MaxDisturbances = 1
    Mishaps = {"fault"}

SPECIFICATION Spec

SYMMETRY NodeSymmetry

PROPERTIES
    HealthyUntouched
    ImplementsSupervisor
