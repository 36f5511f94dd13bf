\* Formats of up to three directives, buffers of 0, 1 and 3 bytes; lists of
\* three nodes; three threads of two applications on a heap of three blocks
\* with a map of two; two threads that sort, three that call pthread_once;
\* five words for the arguments of scanf and what lies behind them.
CONSTANTS
    Formats <- MCFormats
    Sizes = {0, 1, 3}
    Emit = {0, 2}
    Nodes = 3
    h1 = h1
    h2 = h2
    h3 = h3
    Callers = {h1, h2, h3}
    AppOf <- MCAppOf
    Heap = {b1, b2, b3}
    MapSize = 2
    Sorters = {s1, s2}
    Functions = {f1, f2}
    Compares = 2
    Nobody = Nobody
    Onces = {o1, o2, o3}
    Control = {k1, k2}
    NoThread = NoThread
    Lists <- MCLists
    Cells = {c1, c2, c3}
    ScanWords = 5
SPECIFICATION GlueSpec
INVARIANTS
    GlueTypeOK
    StringsTurned
    ReadsItsArguments
    OutputFits
    NativeSeesNative
    AppSeesItsOwn
    FreesWhatItIsGiven
    FreesItsOwn
    MapIsExact
    ComparesWithItsOwn
    RunsAsCalled
    ArgsTurned
    ScanfStoresItsOwn
PROPERTY
    SortsFinish
CHECK_DEADLOCK FALSE
