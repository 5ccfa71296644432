SPECIFICATION Spec
CONSTANTS
    Top = 1
    UpSpeed = 1
    MaxAttempts = 2
    MaxResumes = 2
    AutoHome = FALSE
    Scale = 1
    Speeds = {1}
    Targets = {0, 1}
    Incs <- OneStep
    Mishaps = {"alarm", "restart", "kill"}
    MaxMishaps = 2
INVARIANTS
    TypeOK
    ModeServesUser
    StopHolds
    RestartsBounded
    AtRestInAlarm
    HomedMeansOrigin
PROPERTIES
    ImplementsService
