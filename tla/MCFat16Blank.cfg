CONSTANTS
    LastEntry = 4
    LastData = 4
    RootEntries = 3
    Names = {test, a}
    BootName = test
    Chunks = {x, y}
    MaxChunks = 2
    MaxOps = 3
    MaxCrashes = 1
    Free = Free
    Deleted = Deleted
    Unknown = Unknown
SPECIFICATION Spec
INVARIANT BlankDiskBoots
CHECK_DEADLOCK FALSE
