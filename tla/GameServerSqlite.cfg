\* SQLite: one call at a time, with failures, bans and restarts in between.
SPECIFICATION Spec
CONSTANTS
    Users = {u1, u2}
    Requests = {r1}
    Rewards = {0, 1, 2}
    MaxTapsPerSecond = 1
    MaxTapsPerDay = 3
    Day = 2
    Cap = 3
    Interleaved = FALSE
    StoreFails = TRUE
    MaxTime = 3
    MaxTaps = 4
    Idle = Idle
    NoRow = NoRow
    NoLeaf = NoLeaf
INVARIANTS
    TapsAreCredited
    TreeInSync
PROPERTIES
    CapRespected
    ImplementsEarnings
