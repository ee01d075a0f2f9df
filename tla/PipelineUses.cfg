SPECIFICATION Spec
CONSTANTS
    BatchSizes = {1, 2}
    MaxTemp = 1
    Setups <- Uses
    MaxBuffers = 3
INVARIANTS InputsStable OutputComplete BuffersInv
PROPERTIES Progress
CHECK_DEADLOCK FALSE
