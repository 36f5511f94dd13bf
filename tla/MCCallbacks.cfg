\* Three slots, or two for data that is set, and four pointers, or two: the
\* tables fill up, and slots are reused.  Three events, free functions that nest.
\* The two data of Datum have the names of functions, so that the permutations
\* that are symmetries of the other parts are symmetries of this one too.
CONSTANTS
    Owner = {c1, c2, c3}
    Data = {d1, d2, d3, d4}
    Function = {f1, f2}
    Slots = 3
    Null = Null
    Held = {c1, c2, c3}
    Datum = {f1, f2}
    FreeFunction = {g}
    SetSlots = 2
    None = Null
    FreesNested = 1
    Alike = {d1, d2, d3}
    Payload = {d1, d2, d3, d4}
    Release_to = {f1, f2}
    NoRelease = Null
    QueueLimit = 2
    Nesting = 2
SPECIFICATION CallbacksSpec
SYMMETRY Symmetry
INVARIANTS
    CallbacksTypeOK
    ReachesItsOwn
    FreedByItsOwn
    SlotsAccounted
    SetIsFreed
    EventsKeepTheirEntry
    EntriesAreOutstanding
CHECK_DEADLOCK FALSE
