CONSTANTS
    TaskCap = 4
    MaxTasks = 2
    ScancodeCap = 2
    MaxScancodes = 4
SPECIFICATION InputSpec
INVARIANT NoHandlerDeadlock
