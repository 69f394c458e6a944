\* Two processes, late handlers: is a failed job's ingestion settled?
CONSTANTS
    i1 = i1
    i2 = i2
    h1 = h1
    h2 = h2
    h3 = h3
    p1 = p1
    p2 = p2
    a1 = a1
    NoWorker = NoWorker
    NoHandler = NoHandler
    NoIngestion = NoIngestion
    Workers = {p1, p2}
    Ingestions = {i1}
    Assets = {a1}
    AssetOf <- MCAssetOfOne
    Invalid = {i1}
    Rank <- MCRankOne
    Handlers = {h1, h2}
    WorkerOf <- MCApart
    SlowHandlers = {h1, h2}
    MaxFaults = 2
SPECIFICATION Spec
INVARIANT FailedIsSettled
