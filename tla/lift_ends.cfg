SPECIFICATION FairSpec
CONSTANTS
    Top = 1
    UpSpeed = 1
    MaxAttempts = 2
    MaxResumes = 1
    AutoHome = TRUE
    Scale = 1
    Speeds = {}
    Targets = {}
    Incs = {}
    Mishaps = {"alarm", "blocked", "silence", "power", "kill"}
    MaxMishaps = 1
PROPERTIES
    HomingEnds
    GivesUp
    ReleasedAtEnd
