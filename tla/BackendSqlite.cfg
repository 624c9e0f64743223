\* SQLite: store calls run in one turn, RPC calls overlap with everything.
SPECIFICATION Spec
CONSTANTS
    Users = {u1}
    Callers = {"tick", "admin", "startup"}
    Interleaved = FALSE
    RpcFails = FALSE
    StoreFails = FALSE
    MaxFailures = 0
    MaxEpoch = 1
    MaxTime = 1
    MaxTaps = 2
    MaxRestarts = 0
    MaxOthers = 1
    Bans = TRUE
    Idle = Idle
    NoLeaf = NoLeaf
    NoRoot = NoRoot
    NoRow = NoRow
INVARIANTS
    LeavesFollowRows
PROPERTIES
    BannedLeafFrozen
    ImplementsRegister
