SPECIFICATION MCTimelySpec
CONSTANTS
  Kinds <- MCKinds
  Configs <- MCOnlyQUIC
  MaxGoroutines = 2
  Runs = 1
  Callers = {p1}
  Handlers = {h1}
PROPERTIES QueriesAreAdmitted
CHECK_DEADLOCK FALSE
