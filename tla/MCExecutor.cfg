CONSTANTS
    TaskCap = 4
    MaxTasks = 3
SPECIFICATION FairSpec
INVARIANTS  HaltedMeansIdle
PROPERTIES WokenTaskIsPolled ImplementsScheduler
