SPECIFICATION FairSpec
CONSTANTS
    Sessions = {"s1", "s2"}
    Window = 2
    StoreRecords = 3
    NumberLimit = 64
    ClientWindow = 3
    SyncUnacked = 1
    MaxFiles = 2
    MaxFaults = 1
    MaxLosses = 2
INVARIANTS
    AckedWereWritten
    WrittenOnce
    StoreHoldsFile
    SlotsAreCurrent
CHECK_DEADLOCK FALSE
PROPERTIES
    EventuallyAcked
