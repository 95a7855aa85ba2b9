SPECIFICATION MCSpec
CONSTANTS
  e1 = e1
  e2 = e2
  c1 = c1
  c2 = c2
  d1 = d1
  d2 = d2
  Dials <- MCDials
  MaxTrips = 2
  MaxClients = 3
INVARIANTS ReturnsAlone NoClientLost AddressesAreCurrent
PROPERTIES OnlyItsUsersRetireIt JoinEnds EveryoneReturns
CHECK_DEADLOCK FALSE
