\* Three handlers of two processes, two uploads, one invalid; no handler outlives its lease.
CONSTANTS
    i1 = i1
    i2 = i2
    h1 = h1
    h2 = h2
    h3 = h3
    p1 = p1
    p2 = p2
    a1 = a1
    NoWorker = NoWorker
    NoHandler = NoHandler
    NoIngestion = NoIngestion
    Workers = {p1, p2}
    Ingestions = {i1, i2}
    Assets = {a1}
    AssetOf <- MCAssetOf
    Invalid = {i1}
    Rank <- MCRank
    Handlers = {h1, h2, h3}
    WorkerOf <- MCTwoProcesses
    SlowHandlers = {}
    MaxFaults = 2
SPECIFICATION FairSpec
INVARIANTS
    ClaimIsExclusive
    CompletedIsSucceeded
    FailedIsSettled
    AuditMatchesState
PROPERTY EventuallySettled
