SPECIFICATION FairReaderSpec
CONSTANTS
    MaxSections = 2
    MaxUsableMemory = 2
    Faults = {"open", "close", "info", "stub", "append", "iter", "read", "status", "unlink"}
    SyncIndexes = {}
    FileUser = TRUE
    MaxStores = 4
    MaxRecords = 3
    MaxFaults = 1
    MaxRestarts = 0
PROPERTIES
    EventuallyWritten
    ImplementsLog
