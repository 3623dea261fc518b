CONSTANTS
    TaskCap = 4
    MaxTasks = 2
    ScancodeCap = 2
    MaxScancodes = 4
SPECIFICATION InputFairSpec
INVARIANTS NoLostWakeup HandlerNeverFrees InOrderOnce DeadlockNeedsClear
PROPERTIES ScancodeIsDecoded RefinesExecutor
