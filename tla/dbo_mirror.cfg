SPECIFICATION FairSpec
CONSTANTS
    FirstBlock = 2
    FileBlocks = 1
    MaxBlock = 3
    MaxSwitches = 2
    MaxCrashes = 1
CHECK_DEADLOCK FALSE
INVARIANTS
    CommittedAreMirrored
    BlocksInOrder
PROPERTIES
    ClosedAreDeleted
