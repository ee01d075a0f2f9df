CONSTANTS
    Setups <- Uses
SPECIFICATION Spec
INVARIANTS JobInv ComputesItsJob
PROPERTIES CallsEnd
CHECK_DEADLOCK FALSE
