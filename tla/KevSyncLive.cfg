SPECIFICATION FairSpec
CONSTANTS
  h1 = h1
  h2 = h2
  k1 = k1
  k2 = k2
  c1 = c1
  c2 = c2
  Workers = {k1}
  NoWorker = NoWorker
  Handlers = {h1, h2}
  WorkerOf <- OneProcess
  LastWindow = 1
  Catalogs = {c1}
  NoCatalog = NoCatalog
  Released <- OneRelease
  Size <- TwoEntries
  BatchSize = 1
  Versions = {"v1", "v2"}
  SyncMaxAttempts = 2
  MaxClaims = 7
  MaxFaults = 1
  MaxDeploys = 1
INVARIANTS
  ExecutionWithinAttempts
PROPERTIES
  EventuallySettled
CHECK_DEADLOCK FALSE
