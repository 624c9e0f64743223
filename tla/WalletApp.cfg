\* One device with two calls in progress.
SPECIFICATION FairSpec
CONSTANTS
    Devices = {phone}
    Seeds = {a, b}
    Passcodes = {p, q}
    Jettons = {j}
    Slots = {1, 2}
    MaxActs = 5
    MaxFailures = 1
    Nothing = Nothing
INVARIANTS
    TypeOK
    RecordsBelongTogether
    RetiredStaysRetired
    SignsForShownAccount
PROPERTIES
    SeedFinallyWiped
CHECK_DEADLOCK FALSE
