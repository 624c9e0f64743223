\* The wallet app's page and the claim button of one owner, used in turn.
SPECIFICATION Spec
CONSTANTS
    Owners = {me}
    Signers = {k1, k2}
    Me = me
    Key0 = k1
    Clients = {"sdk", "page"}
    NoLeaf = NoLeaf
    NoRoot = NoRoot
    Nothing = Nothing
    MaxFailures = 1
    MaxInFlight = 1
    Attempts = 2
    MaxAmount = 1
    MaxOpen = 1
    Window = 0
    Interleaved = TRUE
    MaxCumulative = 2
    MaxEpoch = 1
    MaxTime = 0
INVARIANTS
    ClaimedWithinEarned
PROPERTIES
    PlainTransferFindsWallet
