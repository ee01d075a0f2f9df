SPECIFICATION CheckpointSpec
CONSTANTS
    Savers = {s1, s2}
    Layers = 2
    Faults = {"write", "remove", "read", "crash", "interrupt", "power"}
    MaxSaves = 2
    MaxSteps = 1
INVARIANTS CheckpointTypeOK IndexWhole ForwardWhole
SYMMETRY Symmetry
CONSTRAINT CutAmongFiles
CHECK_DEADLOCK FALSE
