SPECIFICATION Spec
CONSTANTS
    h1 = h1
    h2 = h2
    e1 = e1
    e2 = e2
    operator = operator
    Attempts <- MCAttempts
    Operator <- MCOperator
    Dirs <- MCDirs
    DirChoices <- MCDirChoices
    Load = 2
    Killable <- MCKillable
    MaxDisturbances = 1
INVARIANTS
    TypeOK
    ClassificationIsTrue
    LaunchIsOnRecord
    DriftStops
    SealedIsComplete
PROPERTIES
    EveryRunEnds
CHECK_DEADLOCK FALSE
