CONSTANTS
    TP = 2
    HostSlots = 1
    NumExperts = 2
    Epochs = {1}
    Layers = {1}
    Counts = {2}
    Plan <- OneLayer
    Lawful = TRUE
    Events = {"crash", "timeout", "writer", "cuda", "reopen"}
SPECIFICATION LiveSpec
INVARIANTS NoTornCopy LayerOnGpu ReportsFirstFailure NoSpuriousPoison
PROPERTIES EveryCallEnds
CHECK_DEADLOCK FALSE
