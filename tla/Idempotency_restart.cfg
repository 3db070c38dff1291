SPECIFICATION FairSpec
CONSTANTS
    Requests = {r1, r2}
    Keys = {k1}
    Fingerprints = {f1, f2}
    NoRequest = NoRequest
    NoRecord = NoRecord
    NoOp = NoOp
    NoDeadline = NoDeadline
    Driver = "sqlite"
    Ttl = 3
    Deadline = 1
    OpBound = 1
    Disconnects = TRUE
    MaxTime = 4
    MaxCrashes = 1
PROPERTIES
    EveryRequestAnswered
CHECK_DEADLOCK FALSE
