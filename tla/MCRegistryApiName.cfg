\* The file of the third task has a name of 64 characters or more.
CONSTANTS
    t1 = t1
    t2 = t2
    t3 = t3
    fileA = fileA
    fileB = fileB
    Task = {t1, t2, t3}
    Nobody = Nobody
    Asker = {t2}
    IdModulus = 4
    ModuleName <- MCModuleName
    StoredName <- LongName
SPECIFICATION Spec
PROPERTIES
    ImplementsAtomicRegistry
