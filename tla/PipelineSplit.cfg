SPECIFICATION MonitorSpec
CONSTANTS
  e1 = e1
  e2 = e2
  e3 = e3
  x1 = x1
  NoRun = NoRun
  Orphan = Orphan
  Runs = {r1, r2}
  Requests <- MCRequests
  InvalidEvents = {}
  Undecodable = {x1}
  MaxEvents = 2
  BatchSize = 1
  MaxRetries = 2
  MaxResends = 1
  Faults = {"split", "db", "deadline"}
  NoKey = NoKey
  ApiKeys = {NoKey, k1, k2}
SYMMETRY Symmetry
INVARIANTS
  DeadMeansNotStored
PROPERTIES
  FullBatchLosesNothing
  StatsMissNothing
