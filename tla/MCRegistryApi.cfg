\* Four ids: three modules and one that registers again before the counter wraps.
CONSTANTS
    t1 = t1
    t2 = t2
    t3 = t3
    fileA = fileA
    fileB = fileB
    Task = {t1, t2, t3}
    Nobody = Nobody
    Asker = {t2, t3}
    IdModulus = 4
    ModuleName <- MCModuleName
    StoredName <- FittingNames
SPECIFICATION Spec
INVARIANTS
    TypeOK
    WalkerSeesLiveNode
    IdsFallUntilWrapped
PROPERTIES
    ImplementsAtomicRegistry
