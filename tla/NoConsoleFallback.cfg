SPECIFICATION Spec
CONSTANTS
  Records = {w1, w2, w3}
  QueueSize = 2
CHECK_DEADLOCK FALSE
INVARIANT
  FallsBackToConsole
