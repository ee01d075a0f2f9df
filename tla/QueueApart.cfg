CONSTANTS
    a = a
    b = b
    Clients = {a, b}
    Setups <- Apart
    Allowed = {0}
    MaxTasks = 1
SPECIFICATION FairSpec
PROPERTIES AnySyncEnds
CHECK_DEADLOCK FALSE
