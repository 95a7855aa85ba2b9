SPECIFICATION MCSpec
CONSTANTS
  TTLValues = {0, 2, 4}
  Msgs <- MCMsgs
  MaxTTL = 4
  ServFailMax = 2
  MinTTLs = {0, 3}
  MaxTTLs = {0, 3}
  Optimistic = TRUE
  OptimisticTTL = 2
  OptimisticMaxAge = 1
  MaxClock = 10
  W4 = 1
  W6 = 3
  MaxEntries = 2
  MaxLines = 3
INVARIANT ExcludedGoToDefault
CHECK_DEADLOCK FALSE
