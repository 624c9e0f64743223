\* The SDK's claim button alone, with a clock tick that lets leaves expire.
SPECIFICATION FairSpec
CONSTANTS
    Owners = {me}
    Signers = {k1, k2}
    Me = me
    Key0 = k1
    Clients = {"sdk"}
    NoLeaf = NoLeaf
    NoRoot = NoRoot
    Nothing = Nothing
    MaxFailures = 1
    MaxInFlight = 1
    Attempts = 1
    MaxAmount = 0
    MaxOpen = 1
    Window = 0
    Interleaved = FALSE
    MaxCumulative = 2
    MaxEpoch = 2
    MaxTime = 1
INVARIANTS
    TypeOK
    AnswersBelongTogether
PROPERTIES
    EarnedFinallyClaimed
