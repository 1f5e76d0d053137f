CONSTANTS
    Process = {p1, p2, p3}
    NULL = NULL
    Capacity = 3
SPECIFICATION Spec
SYMMETRY Symmetry
INVARIANTS
    RingInv
PROPERTIES
    ImplementsReadyQueue
