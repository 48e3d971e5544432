SPECIFICATION FairSpec
CONSTANTS
  e1 = e1
  e2 = e2
  e3 = e3
  e4 = e4
  bad = bad
  x1 = x1
  NoRun = NoRun
  Orphan = Orphan
  Runs = {r1, r2}
  Requests <- MCRequestsOne
  InvalidEvents = {}
  Undecodable = {x1}
  MaxEvents = 2
  BatchSize = 1
  MaxRetries = 1
  MaxResends = 1
  Faults = {"db", "commit", "deadline", "ttl"}
INVARIANTS
  AtMostOnce
PROPERTIES
  AckedIsSettled
  KeepsContract
