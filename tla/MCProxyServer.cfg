SPECIFICATION MCSpec
CONSTANTS
  Kinds <- MCKinds
  Configs <- MCConfigs
  MaxGoroutines = 2
  Runs = 2
  Callers = {p1, p2}
  Handlers = {h1, h2}
INVARIANTS SlotsAccounted NothingOpenWhileStopped ReportsAreFailures RateIsKept
PROPERTIES ImplementsServerRun ShutdownsEnd
CHECK_DEADLOCK FALSE
