SPECIFICATION Spec
CONSTANTS
    Requests = {r1, r2, r3}
    Keys = {k1}
    NoKey = NoKey
    NoRow = NoRow
    NoOp = NoOp
    NoRequest = NoRequest
    Quota = 2
    MaxConcurrency = 2
    Timely = TRUE
    MaxWindows = 1
    MaxCrashes = 1
INVARIANTS
    OneUnreleasedEffect
    TaskRunsAlone
    WorkWithinPermits
    EffectsPerWindow
    ToldJobIsKnown
PROPERTIES
    KeepsPromise
SYMMETRY Symmetry
CHECK_DEADLOCK FALSE
