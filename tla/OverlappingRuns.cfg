SPECIFICATION Spec
CONSTANTS
  Instances = {i1, i2}
  SlotIds = {1, 2}
  Nobody = Nobody
  Interval = 15
  ProcessTimeout = 15
  LockTTL = 2
  MaxBatchTime = 2
INVARIANT
  OneRunAtATime
