SPECIFICATION Spec
CONSTANTS
    Requests = {r1, r2, r3}
    Keys = {k1}
    Fingerprints = {f1, f2}
    NoRequest = NoRequest
    NoRecord = NoRecord
    NoOp = NoOp
    NoDeadline = NoDeadline
    Driver = "sqlite"
    Ttl = 1
    Deadline = NoDeadline
    OpBound = 1
    Disconnects = FALSE
    MaxTime = 2
    MaxCrashes = 0
SYMMETRY Symmetry
INVARIANTS
    ReplaysSameRequest
CHECK_DEADLOCK FALSE
