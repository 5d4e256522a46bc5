CONSTANTS
    Capacity = 4
    Element = {e1, e2}
    NoElement = none
SPECIFICATION Spec
INVARIANT NoSlotRace
PROPERTY ImplementsFifo
