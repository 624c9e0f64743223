\* Postgres: calls overlap, fail, lose replies and die in a restart; the chain catches up.
SPECIFICATION FairSpec
CONSTANTS
    Users = {u1}
    Callers = {"tick"}
    Interleaved = TRUE
    RpcFails = TRUE
    StoreFails = TRUE
    MaxFailures = 1
    MaxEpoch = 1
    MaxTime = 1
    MaxTaps = 2
    MaxRestarts = 1
    MaxOthers = 0
    Bans = FALSE
    Idle = Idle
    NoLeaf = NoLeaf
    NoRoot = NoRoot
    NoRow = NoRow
INVARIANTS
    TypeOK
    EpochsDurable
    ServedEpochs
    RootsWithinEarnings
PROPERTIES
    ImplementsRegister
    ChainCatchesUp
