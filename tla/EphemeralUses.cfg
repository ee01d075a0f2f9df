SPECIFICATION Spec
CONSTANTS
    Setups <- Uses
INVARIANTS TreesInv LeavesNothing
CHECK_DEADLOCK FALSE
