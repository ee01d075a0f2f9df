CONSTANTS
    TP = 2
    HostSlots = 1
    NumExperts = 2
    Epochs = {1, 2}
    Layers = {1, 2}
    Counts = {1, 2}
    Plan <- OneThenTwo
    Lawful = TRUE
    Events = {"close"}
SPECIFICATION LiveSpec
ACTION_CONSTRAINT CloseInFirstLayer
PROPERTIES CloseEnds AllLayersLoad
CHECK_DEADLOCK FALSE
