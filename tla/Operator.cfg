\* A master is minted; then two syncs, the operator and Toncenter share its metadata.
SPECIFICATION Spec
CONSTANTS
    MaxKeys = 2
    MaxTree = 2
    MaxEpoch = 1
    MaxTransfers = 2
    MaxPending = 1
    Nothing = Nothing
CHECK_DEADLOCK FALSE
INVARIANTS
    TypeOK
    RegisteredAsDeployed
    MetadataNeverLags
    ReportIsTrue
PROPERTIES
    DumpNeverFromCache
