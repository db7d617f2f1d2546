SPECIFICATION Spec
CONSTANTS
    MaxSections = 2
    MaxUsableMemory = 2
    Faults = {"open", "close", "info", "stub", "append", "iter", "read", "status", "unlink"}
    SyncIndexes = {1, 3}
    FileUser = FALSE
    MaxStores = 3
    MaxRecords = 3
    MaxFaults = 2
    MaxRestarts = 0
INVARIANTS
    TypeOK
    NoAckedRecordLost
    DeliveredInOrder
PROPERTIES
    OnlySentStoresDropped
