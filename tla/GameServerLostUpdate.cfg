\* Violation: an overlapping call overwrites a larger cumulative amount.
SPECIFICATION Spec
CONSTANTS
    Users = {u1}
    Requests = {r1, r2}
    Rewards = {1, 2}
    MaxTapsPerSecond = 3
    MaxTapsPerDay = 3
    Day = 2
    Cap = 0
    Interleaved = TRUE
    StoreFails = FALSE
    MaxTime = 0
    MaxTaps = 3
    Idle = Idle
    NoRow = NoRow
    NoLeaf = NoLeaf
SYMMETRY Symmetry
PROPERTIES
    CumulativeNeverDecreases
