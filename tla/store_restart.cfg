SPECIFICATION Spec
CONSTANTS
    MaxSections = 2
    MaxUsableMemory = 4
    Faults = {"append", "read", "stub"}
    SyncIndexes = {}
    FileUser = FALSE
    MaxStores = 4
    MaxRecords = 4
    MaxFaults = 1
    MaxRestarts = 2
INVARIANTS
    NoAckedRecordLost
    WrittenCountExact
    StoreEmptySound
