CONSTANTS
    TP = 2
    HostSlots = 1
    NumExperts = 2
    Epochs = {1, 2}
    Layers = {1, 2}
    Counts = {1, 2}
    Plan <- TwoThenOne
    Lawful = FALSE
    Events = {}
SPECIFICATION Spec
INVARIANTS StatsOfOwnLayer TransportInv
PROPERTIES ImplementsBroadcast
CHECK_DEADLOCK FALSE
