\* Postgres: calls overlap, fail, lose replies and die in restarts.
SPECIFICATION Spec
CONSTANTS
    Users = {u1}
    Requests = {r1, r2}
    Rewards = {0, 1, 2}
    MaxTapsPerSecond = 1
    MaxTapsPerDay = 2
    Day = 2
    Cap = 3
    Interleaved = TRUE
    StoreFails = TRUE
    MaxTime = 3
    MaxTaps = 4
    Idle = Idle
    NoRow = NoRow
    NoLeaf = NoLeaf
SYMMETRY Symmetry
INVARIANTS
    TypeOK
    RateLimits
    CreditedWithinTaps
