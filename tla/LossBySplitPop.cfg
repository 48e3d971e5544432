SPECIFICATION Spec
CONSTANTS
  e1 = e1
  e2 = e2
  e3 = e3
  e4 = e4
  bad = bad
  x1 = x1
  NoRun = NoRun
  Orphan = Orphan
  Runs = {r1, r2}
  Requests <- MCRequests
  InvalidEvents = {}
  Undecodable = {}
  MaxEvents = 2
  BatchSize = 2
  MaxRetries = 3
  MaxResends = 1
  Faults = {"split"}
INVARIANT
  NoLoss
