CONSTANTS
    e1 = e1
    e2 = e2
    e3 = e3
    r1 = r1
    r2 = r2
    Setups <- Uses
    ProbationUses = 1
    UseMax = 1
    EpochMax = 3
SPECIFICATION Spec
CONSTRAINT SlotBound
SYMMETRY Alike
INVARIANTS SlotsInv LeaseHolds HitIsResident RoundProtects
PROPERTIES AdmissionSpares
