SPECIFICATION Spec
CONSTANTS
    MaxSections = 2
    MaxUsableMemory = 4
    Faults = {"crash", "flush", "close"}
    SyncIndexes = {}
    FileUser = FALSE
    MaxStores = 4
    MaxRecords = 4
    MaxFaults = 2
    MaxRestarts = 2
INVARIANTS
    DeliveredOnce
    MemoryMatchesStores
