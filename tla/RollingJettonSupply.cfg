\* Supply: mints, burns, bounces, a signer rotation and the other admin messages around claims.
SPECIFICATION Spec
CONSTANTS
    Owners = {o1}
    Signers = {k1, k2}
    NoRoot = NoRoot
    NoLeaf = NoLeaf
    Master = Master
    Accounts = {admin}
    Contents = {c1}
    Admin0 = admin
    Signer0 = k1
    MaxSupply = 1
    MaxInFlight = 1
    Window = 9
    MaxCumulative = 1
    MaxEpoch = 1
    MaxMasterEpoch = 1
    MaxAmount = 2
    MaxTime = 0
    MaxMint = 1
    MaxRestarts = 1
    OtherProofs <- NoProofs
    MaxForeign = 1
    AdminOps = {"update_signer", "pause", "change_admin", "change_content"}
INVARIANTS
    TypeOK
    Conservation
    CacheIsVouched
