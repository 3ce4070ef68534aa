SPECIFICATION FairSpec
CONSTANTS
    Requests <- RequestSet
    GateBudget = 1
    CallBudget = 2
    WriteTimeout = 3
    DrainTime = 6
    r1 = r1
    r2 = r2
CHECK_DEADLOCK FALSE
INVARIANTS
    TypeOK
    ServesConnected
    ForcedOnlyByWizard
    CleanExit
    LostOnlyAtTheLimit
PROPERTIES
    EveryRequestEnds
    ShutdownEnds
    StartEnds
