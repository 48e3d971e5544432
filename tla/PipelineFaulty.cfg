SPECIFICATION Spec
CONSTANTS
  e1 = e1
  e2 = e2
  e3 = e3
  e4 = e4
  bad = bad
  x1 = x1
  NoRun = NoRun
  Orphan = Orphan
  Runs = {r1, r2}
  Requests <- MCRequestsMixed
  InvalidEvents = {bad}
  Undecodable = {x1}
  MaxEvents = 2
  BatchSize = 2
  MaxRetries = 2
  MaxResends = 1
  Faults = {"split", "redis", "db", "commit", "deadline", "kill"}
SYMMETRY Symmetry
INVARIANTS
  TypeOK
  OneActiveRun
  AtMostOnce
  InOrder
  RefusedWhole
PROPERTIES
  LossIsOneBatch
  DeadOnlyIfUnanswered
