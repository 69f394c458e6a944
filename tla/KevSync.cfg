SPECIFICATION Spec
CONSTANTS
  h1 = h1
  h2 = h2
  k1 = k1
  k2 = k2
  c1 = c1
  c2 = c2
  Workers = {k1, k2}
  NoWorker = NoWorker
  Handlers = {h1, h2}
  WorkerOf <- TwoProcesses
  LastWindow = 2
  Catalogs = {c1, c2}
  NoCatalog = NoCatalog
  Released <- OlderAndNewer
  Size <- OneEntry
  BatchSize = 1
  Versions = {"v1"}
  SyncMaxAttempts = 1
  MaxClaims = 4
  MaxFaults = 1
  MaxDeploys = 0
INVARIANTS
  ActiveIsWhole
  JobAndRunAgree
PROPERTIES
  SnapshotIsFinal
  ImplementsCatalog
CHECK_DEADLOCK FALSE
