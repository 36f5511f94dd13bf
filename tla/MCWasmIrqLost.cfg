CONSTANTS
    Irq = {i1, i2}
    MaxRefs = 2
    MaxSem = 2
SPECIFICATION Spec
SYMMETRY Symmetry
INVARIANTS
    NeverSleepsOnWork
CHECK_DEADLOCK FALSE
