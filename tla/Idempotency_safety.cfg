SPECIFICATION Spec
CONSTANTS
    Requests = {r1, r2, r3}
    Keys = {k1}
    Fingerprints = {f1, f2}
    NoRequest = NoRequest
    NoRecord = NoRecord
    NoOp = NoOp
    NoDeadline = NoDeadline
    Driver = "postgres"
    Ttl = 3
    Deadline = 1
    OpBound = 1
    Disconnects = TRUE
    MaxTime = 4
    MaxCrashes = 0
SYMMETRY Symmetry
INVARIANTS
    OneRunPerKey
    OkIsReplayable
PROPERTIES
    CompletedIsStable
    OnlyOwnerEndsClaim
    KeepsPromise
CHECK_DEADLOCK FALSE
