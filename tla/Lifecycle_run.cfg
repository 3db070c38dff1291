SPECIFICATION FairSpec
CONSTANTS
    Requests = {r1, r2}
    None = None
    I64Max = 2
    Env <- MCEnv
    Sources <- MCSources
INVARIANTS
    ExpansionIsExact
    AcceptedReferencesResolve
    AbortIsReported
    CleanExit
PROPERTIES
    ShutdownEnds
CHECK_DEADLOCK FALSE
