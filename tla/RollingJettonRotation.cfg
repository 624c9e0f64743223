\* Violation: after update_signer an owner is credited the same cumulative again.
SPECIFICATION Spec
CONSTANTS
    Owners = {o1}
    Signers = {k1, k2}
    NoRoot = NoRoot
    NoLeaf = NoLeaf
    Master = Master
    Accounts = {admin}
    Contents = {c1}
    Admin0 = admin
    Signer0 = k1
    MaxSupply = 0
    MaxInFlight = 1
    Window = 9
    MaxCumulative = 1
    MaxEpoch = 1
    MaxMasterEpoch = 0
    MaxAmount = 1
    MaxTime = 0
    MaxMint = 0
    MaxRestarts = 1
    OtherProofs <- FullProof
    MaxForeign = 0
    AdminOps = {"update_signer"}
INVARIANTS
    OwnerCreditedOnce
