SPECIFICATION Spec
CONSTANTS
    Requests = {r1, r2}
    Schedules = {s1}
    Horizon = 1
    Limit = 240
    MaxCuts = 0
    None = None
INVARIANTS
    PaidOnce
