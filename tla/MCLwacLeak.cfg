CONSTANTS
    Task = {t1, t2}
    Nobody = Nobody
    IdModulus = 1
    MaxLostInits = 1
SPECIFICATION Spec
SYMMETRY Symmetry
INVARIANTS
    LastUserDestroysRuntime
