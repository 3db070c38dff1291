SPECIFICATION Spec
CONSTANTS
    Requests = {r1, r2, r3}
    Clients = {c1}
    fast = fast
    slow = slow
    slowWindow = 2
    slowQuota = 2
    Endpoints <- MCEndpoints
    Window <- MCWindow
    Quota <- MCQuota
    Retention = 3
    Stall = 1
    Drivers = {"sqlite", "postgres"}
    MaxTime = 5
SYMMETRY Symmetry
INVARIANTS
    QuotaRespected
    LimitedOnlyWhenSpent
    RetryFindsNewWindow
PROPERTIES
    KeepsPromise
CHECK_DEADLOCK FALSE
