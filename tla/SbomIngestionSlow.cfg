\* Two uploads for one asset, two handlers of one process, both may be late.
CONSTANTS
    i1 = i1
    i2 = i2
    h1 = h1
    h2 = h2
    h3 = h3
    p1 = p1
    p2 = p2
    a1 = a1
    NoWorker = NoWorker
    NoHandler = NoHandler
    NoIngestion = NoIngestion
    Workers = {p1}
    Ingestions = {i1, i2}
    Assets = {a1}
    AssetOf <- MCAssetOf
    Invalid = {}
    Rank <- MCRank
    Handlers = {h1, h2}
    WorkerOf <- MCOneProcess
    SlowHandlers = {h1, h2}
    MaxFaults = 3
SPECIFICATION Spec
SYMMETRY Symmetry
INVARIANTS
    PointerIsNewestCompleted
    GraphInsertedOnce
    SucceededIsCompleted
PROPERTIES
    ImplementsLifecycle
