CONSTANTS
    Irq = {i1}
    MaxRefs = 2
    MaxSem = 2
SPECIFICATION FairSpec
PROPERTIES
    ExitIsHonoured
CHECK_DEADLOCK FALSE
