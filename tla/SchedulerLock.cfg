SPECIFICATION FairSpec
CONSTANTS
  Instances = {i1, i2}
  SlotIds = {1, 2}
  Nobody = Nobody
  Interval = 3
  ProcessTimeout = 3
  LockTTL = 2
  MaxBatchTime = 3
INVARIANTS
  TypeOK
  RunsAreBounded
  RunsSpaced
PROPERTIES
  JobKeepsRunning
