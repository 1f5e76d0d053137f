CONSTANTS
    MaxPid = 4
    Capacity = 3
    Adopters = {0}
    None = None
SPECIFICATION Spec
INVARIANTS
    SlotsExact
    IteratorMissesOnlyMoved
    WalkComplete
PROPERTIES
    IteratorNeverRepeats
    ImplementsRecordSet
