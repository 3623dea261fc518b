CONSTANTS
    BootInfos <- Boots
    Entries = 2
    HeapStart = 5
    HeapPages = 5
    Cr3 = 4
    NotPresent = NotPresent
    HugePage = HugePage
    Garbage = Garbage
    LastSector = 1
    Data = {BootSector, Zeroes, Text}
    BootSector = BootSector
    Zeroes = Zeroes
    Text = Text
    Clean = Clean
    MaxOps = 4
    MaxCuts = 1
SPECIFICATION MachineSpec
INVARIANTS HeapFramesArePrivate HeapIsMapped HeapFailsOnlyWhenShort QuitLosesNothing ReadsWhatWasWritten HangsOnlyAfterFormat
PROPERTIES MappingsStay OperationReturns
CHECK_DEADLOCK FALSE
