SPECIFICATION Spec
CONSTANTS
    Requests = {r1, r2, r3, r4}
    Clients = {c1}
    fast = fast
    slow = slow
    slowWindow = 5
    slowQuota = 1
    Endpoints <- MCEndpoints
    Window <- MCWindow
    Quota <- MCQuota
    Retention = 3
    Stall = 1
    Drivers = {"sqlite"}
    MaxTime = 5
SYMMETRY Symmetry
INVARIANTS
    QuotaRespected
CHECK_DEADLOCK FALSE
