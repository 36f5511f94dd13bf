\* Three tasks: two that contend and a third that walks, or takes the lock next.
CONSTANTS
    Task = {t1, t2, t3}
    Nobody = Nobody
    IdModulus = 1
    MaxLostInits = 1
SPECIFICATION Spec
INVARIANTS
    TypeOK
    RefCountIsUsers
    RuntimeAccounted
    ListedModulesRun
    DependenciesHeld
    NothingLeftBehind
    UnwindsWithItsStatus
PROPERTIES
    ImplementsSharedRuntime
