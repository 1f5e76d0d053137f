CONSTANTS
    Name = {a, b, c, d}
    Capacity = 4
    MaxDependencies = 2
SPECIFICATION Spec
SYMMETRY Symmetry
INVARIANTS
    RefusesExactlyTheUnstartable
    StartOrderIsTopological
