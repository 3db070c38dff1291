SPECIFICATION Spec
CONSTANTS
    Requests = {r1, r2, r3, r4}
    Keys = {k1}
    NoRecord = NoRecord
    NotBlocked = NotBlocked
    MaxFailures = 2
    Window = 1
    Block = 3
    MaxConcurrency = 2
    Stall = 1
    MaxTime = 5
SYMMETRY Symmetry
INVARIANTS
    BlockedIffThreshold
    OvershootBounded
    NoEarlyBlock
    BlockHoldsBack
CHECK_DEADLOCK FALSE
