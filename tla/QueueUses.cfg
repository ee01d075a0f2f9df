CONSTANTS
    a = a
    b = b
    Clients = {a, b}
    Setups <- Uses
    Allowed = {0, 1}
    MaxTasks = 3
SPECIFICATION FairSpec
INVARIANTS QueueInv
PROPERTIES SyncMeansDone SyncReports EveryTaskRuns CallsEnd
CHECK_DEADLOCK FALSE
