CONSTANTS
    Setups <- Uses
    MaxCalls = 3
SPECIFICATION Spec
INVARIANTS ArgsInv FailureSurfaces
PROPERTIES CallsEnd
CHECK_DEADLOCK FALSE
