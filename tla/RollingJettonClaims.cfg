\* Claims: two owners, one signer; vouchers used out of order and again, leaves that
\* expire and are renewed.
SPECIFICATION Spec
CONSTANTS
    Owners = {o1, o2}
    Signers = {k1}
    NoRoot = NoRoot
    NoLeaf = NoLeaf
    Master = Master
    Accounts = {admin}
    Contents = {c1}
    Admin0 = admin
    Signer0 = k1
    MaxSupply = 0
    MaxInFlight = 1
    Window = 0
    MaxCumulative = 2
    MaxEpoch = 1
    MaxMasterEpoch = 0
    MaxAmount = 0
    MaxTime = 1
    MaxMint = 0
    MaxRestarts = 0
    OtherProofs <- FullProof
    MaxForeign = 0
    AdminOps = {}
SYMMETRY Symmetry
INVARIANTS
    ClaimMatchesCachedRoot
    NoClaimBeyondEarnings
PROPERTIES
    ClaimsMoveForward
    ImplementsLedger
