SPECIFICATION Spec
CONSTANTS
  Events = {e1, e2}
  Runs = {r1, r2}
  Nothing = Nothing
  ShutdownTimeout = 3
  InnerTimeout = 2
  StopTimeout = 2
  MaxRequest = 4
  MaxRun = 4
INVARIANTS
  TypeOK
  HandlersHaveRedis
  ExitIsPrompt
  CleanStopLosesNothing
