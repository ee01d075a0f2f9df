CONSTANTS
    World = 3
    Setups <- Uses
SPECIFICATION Spec
INVARIANTS RanksInv BackwardUsesItsForward GradsOfCompletedSteps RetainedOutputEnds
PROPERTIES StepsEnd
CHECK_DEADLOCK FALSE
