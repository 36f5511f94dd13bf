\* Two interrupts that contend for the one thread; each may be counted twice.
CONSTANTS
    Irq = {i1, i2}
    MaxRefs = 2
    MaxSem = 2
SPECIFICATION FairSpec
INVARIANTS
    TypeOK
    MaskedIsOnItsWay
    WalkInList
PROPERTIES
    MaskedIsServed
    ExitReturnsOutsideWindow
CHECK_DEADLOCK FALSE
