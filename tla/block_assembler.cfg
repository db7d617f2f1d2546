SPECIFICATION BSpec
CONSTANTS
    MaxSections = 2
    MaxUsableMemory = 4
    Faults = {"open", "close", "info", "stub", "append", "iter", "crash", "flush"}
    SyncIndexes = {}
    FileUser = FALSE
    MaxStores = 4
    MaxRecords = 4
    MaxFaults = 2
    MaxRestarts = 1
    ChunkRecords = 3
INVARIANTS
    CommittedWereSent
    ChunkIsWhatCommitDeletes
PROPERTIES
    UsesStoreAsSpecified
