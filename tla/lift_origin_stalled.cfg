SPECIFICATION Spec
CONSTANTS
    Top = 1
    UpSpeed = 1
    MaxAttempts = 2
    MaxResumes = 1
    AutoHome = FALSE
    Scale = 1
    Speeds = {}
    Targets = {0}
    Incs = {}
    Mishaps = {"blocked"}
    MaxMishaps = 1
INVARIANTS
    HomedMeansOrigin
